---- MODULE Spec2Model ----
(***************************************************************************)
(* A model of cloudsync's two providers: GDriveProvider                    *)
(* (cloudsync/providers/gdrive.py) talking to a Drive backend, and the     *)
(* in-memory MockProvider (cloudsync/tests/fixtures/mock_provider.py).     *)
(*                                                                         *)
(* Paths are strings in the code.  Here a path is a sequence of tokens,    *)
(* each token either the separator "/" or a name, so that "/s/a" is        *)
(* <<"/","s","/","a">> and string concatenation is \o.  The empty          *)
(* sequence stands for both "" and None where the code tests `not path`.   *)
(* An absent oid (None) is the empty string.                               *)
(***************************************************************************)
EXTENDS Integers, Sequences, FiniteSets, TLC

VARIABLES
    files,        \* backend: oid -> [st, name, parent, isdir]
    changes,      \* backend: the change log served by changes.list
    client,       \* GDriveProvider.client is not None  (connected)
    ids,          \* GDriveProvider._ids, an insertion-ordered dict path -> oid
    cursor,       \* GDriveProvider.__cursor (0 is None)
    rootId,       \* GDriveProvider.__root_id ("" is None)
    syncRootId,   \* GDriveProvider.__sync_root_id ("" is None)
    gen,          \* the suspended events() generator, if any
    hist,         \* history of what events() delivered
    last,         \* the last provider call and how it ended
    mfs,          \* MockProvider: oid -> MockFSObject fields
    mpath,        \* MockProvider._fs_by_path: path -> oid
    moid,         \* MockProvider._fs_by_oid: insertion-ordered list of oids
    mevents,      \* MockProvider._events
    mlatest,      \* MockProvider._latest_event
    mcursor,      \* MockProvider._cursor
    mrecycle,     \* MockProvider._recycle_oid
    mlast,        \* the last MockProvider call and how it ended
    thr,          \* per thread: where it stands in its provider call
    mutex,        \* GDriveProvider.mutex: the thread holding it, 0 when free
    seen,         \* what the last scan of _ids by a reader found
    eng           \* the event manager, its provider and the local files

gvars == <<files, changes, client, ids, cursor, rootId, syncRootId, gen, hist, last>>
mvars == <<mfs, mpath, moid, mevents, mlatest, mcursor, mrecycle, mlast>>
tvars == <<thr, mutex, seen>>
ovars == <<mvars, eng>>
vars == <<gvars, ovars, tvars>>

-----------------------------------------------------------------------------
(* Bounds of the model *)

\* the longest change log the backend is driven to
MaxChanges == 2
\* changes.list page size: a longer tail is served with a nextPageToken
PageSize == 1
\* how many iterations time_helper(timeout, sleep=3) grants one events() call
TimeBudget == 2
\* the interpreter's recursion limit, scaled down
RecursionLimit == 6
\* which backend request of a call an injected fault may hit
MaxFaultAt == 1
\* how many objects MockProvider is driven to make, the root included
MaxObjects == 4
\* the longest event log MockProvider is driven to
MaxEvents == 5
\* the longest event log of the rename histories
MaxLog == 6

-----------------------------------------------------------------------------
(* Paths: Provider.split / is_subpath and string concatenation *)

Sep == "/"
RootPath == <<Sep>>
NoPath == <<>>
None == ""

\* ppath + "/" + name
Concat(ppath, name) == ppath \o <<Sep, name>>

\* the path "/n1/n2/..." of a sequence of names
RECURSIVE PathOf(_)
PathOf(names) ==
    IF names = <<>> THEN <<>>
    ELSE <<Sep, names[1]>> \o PathOf(Tail(names))

\* str.rfind(sep): the last index holding the separator, 0 when there is none
RFind(path) ==
    LET hits == {i \in 1..Len(path) : path[i] = Sep}
    IN IF hits = {} THEN 0 ELSE CHOOSE i \in hits : \A j \in hits : j <= i

\* Provider.split(path) -> (parent, name)
Split(path) ==
    LET i == RFind(path)
    IN IF i = 0 THEN <<path, <<>>>>
       ELSE IF i = 1 THEN <<RootPath, SubSeq(path, 2, Len(path))>>
       ELSE <<SubSeq(path, 1, i - 1), SubSeq(path, i + 1, Len(path))>>

SplitParent(path) == Split(path)[1]
\* the name part as a string
SplitName(path) ==
    LET n == Split(path)[2] IN IF n = <<>> THEN "" ELSE n[1]

IsPrefix(a, b) == Len(a) <= Len(b) /\ SubSeq(b, 1, Len(a)) = a

\* Provider.is_subpath(folder, target, strict)
IsSubpath(folder, target, strict) ==
    IF target = folder THEN ~strict
    ELSE /\ IsPrefix(folder, target)
         /\ \/ folder = RootPath
            \/ target[Len(folder) + 1] = Sep

-----------------------------------------------------------------------------
(* The Drive backend the provider's requests are executed against *)

RootOid == "r"
RootAlias == "root"
\* the order files.list reports its matches in
OidOrder == <<"s", "o", "d", "a", "n1">>
Oids == {OidOrder[i] : i \in 1..Len(OidOrder)}
NewOids == <<"n1">>

FreeFile == [st |-> "free", name |-> "", parent |-> "", isdir |-> FALSE]

Resolve(oid) == IF oid = RootAlias THEN RootOid ELSE oid

Alive(fs, oid) ==
    \/ Resolve(oid) = RootOid
    \/ Resolve(oid) \in Oids /\ fs[Resolve(oid)].st = "alive"

\* whether x lies below top in the parent relation (top itself excluded)
RECURSIVE Below(_, _, _, _)
Below(fs, x, top, fuel) ==
    IF fuel = 0 \/ x \notin Oids THEN FALSE
    ELSE \/ fs[x].parent = top
         \/ Below(fs, fs[x].parent, top, fuel - 1)

FreshOid(fs) ==
    LET free == {i \in 1..Len(NewOids) : fs[NewOids[i]].st = "free"}
    IN IF free = {} THEN None
       ELSE NewOids[CHOOSE i \in free : \A j \in free : i <= j]

Change(fs, oid, removed) ==
    [fileId |-> oid, removed |-> removed, isdir |-> fs[oid].isdir]

\* the live children of pid, those named name when anyName is false
RECURSIVE Matches(_, _, _, _, _)
Matches(fs, pid, name, anyName, i) ==
    IF i > Len(OidOrder) THEN <<>>
    ELSE LET o == OidOrder[i]
         IN (IF fs[o].st = "alive" /\ fs[o].parent = pid /\ (anyName \/ fs[o].name = name)
             THEN <<[id |-> o, parents |-> <<fs[o].parent>>, name |-> fs[o].name,
                     hasMd5 |-> ~fs[o].isdir]>>
             ELSE <<>>)
            \o Matches(fs, pid, name, anyName, i + 1)

Reply(status, fs, chg, resp) ==
    [status |-> status, files |-> fs, changes |-> chg, resp |-> resp]

\* files().get(fileId=..., fields='name, md5Checksum, parents')
BackendGet(fs, chg, req) ==
    LET o == Resolve(req.fileId)
    IN IF o = RootOid
       THEN Reply(200, fs, chg, [id |-> RootOid, name |-> "My Drive", parents |-> <<>>])
       ELSE IF o \in Oids /\ fs[o].st = "alive"
       THEN Reply(200, fs, chg, [id |-> o, name |-> fs[o].name, parents |-> <<fs[o].parent>>])
       ELSE Reply(404, fs, chg, <<>>)

\* files().list(q="'<pid>' in parents and name='<name>'")
BackendList(fs, chg, req) ==
    IF ~Alive(fs, req.pid) THEN Reply(404, fs, chg, <<>>)
    ELSE Reply(200, fs, chg,
               [files |-> Matches(fs, Resolve(req.pid), req.name, req.anyName, 1)])

\* files().create(body={name, parents, mimeType})
BackendCreate(fs, chg, req) ==
    LET o == FreshOid(fs)
    IN IF ~Alive(fs, req.pid) THEN Reply(404, fs, chg, <<>>)
       ELSE IF o = None THEN Reply(403, fs, chg, <<>>)   \* the account is full
       ELSE LET fs2 == [fs EXCEPT ![o] = [st |-> "alive", name |-> req.name,
                                          parent |-> Resolve(req.pid), isdir |-> req.isdir]]
            IN Reply(200, fs2, Append(chg, Change(fs2, o, FALSE)), [id |-> o])

\* files().update(fileId, body, addParents, removeParents): a move when
\* req.move, a content upload otherwise
BackendUpdate(fs, chg, req) ==
    LET o == Resolve(req.fileId)
    IN IF ~(o \in Oids /\ fs[o].st = "alive") THEN Reply(404, fs, chg, <<>>)
       ELSE IF ~req.move THEN Reply(200, fs, Append(chg, Change(fs, o, FALSE)), [id |-> o])
       ELSE IF ~Alive(fs, req.pid) THEN Reply(404, fs, chg, <<>>)
       ELSE LET fs2 == [fs EXCEPT ![o].name = req.name, ![o].parent = Resolve(req.pid)]
            IN Reply(200, fs2, Append(chg, Change(fs2, o, FALSE)), [id |-> o])

\* files().delete(fileId): the object and what lies below it are gone
BackendDelete(fs, chg, req) ==
    LET o == Resolve(req.fileId)
    IN IF ~(o \in Oids /\ fs[o].st = "alive") THEN Reply(404, fs, chg, <<>>)
       ELSE LET fs2 == [x \in Oids |->
                          IF fs[x].st = "alive" /\ (x = o \/ Below(fs, x, o, Cardinality(Oids)))
                          THEN [fs[x] EXCEPT !.st = "gone"] ELSE fs[x]]
            IN Reply(200, fs2, Append(chg, Change(fs, o, TRUE)), <<>>)

\* changes().getStartPageToken(): page tokens are positions in the log
BackendStartToken(fs, chg, req) ==
    Reply(200, fs, chg, [startPageToken |-> Len(chg) + 1])

\* changes().list(pageToken): one page, with nextPageToken while more
\* remains and newStartPageToken on the last page
BackendChanges(fs, chg, req) ==
    LET t == req.token
        more == Len(chg) - t + 1 > PageSize
        upto == IF more THEN t + PageSize - 1 ELSE Len(chg)
    IN Reply(200, fs, chg,
             [changes |-> SubSeq(chg, t, upto),
              nextPageToken |-> IF more THEN upto + 1 ELSE 0,
              newStartPageToken |-> IF more THEN 0 ELSE Len(chg) + 1])

Backend(fs, chg, req) ==
    CASE req.m = "files.get" -> BackendGet(fs, chg, req)
      [] req.m = "files.list" -> BackendList(fs, chg, req)
      [] req.m = "files.create" -> BackendCreate(fs, chg, req)
      [] req.m = "files.update" -> BackendUpdate(fs, chg, req)
      [] req.m = "files.delete" -> BackendDelete(fs, chg, req)
      [] req.m = "changes.getStartPageToken" -> BackendStartToken(fs, chg, req)
      [] req.m = "changes.list" -> BackendChanges(fs, chg, req)
      [] OTHER -> Reply(200, fs, chg, <<>>)

Mutating(req) == req.m \in {"files.create", "files.update", "files.delete"}

-----------------------------------------------------------------------------
(* GDriveProvider: the call context.  A provider call is evaluated on a    *)
(* record holding the provider's fields and the backend; err is the        *)
(* exception in flight ("" when none) and ret the value returned.          *)

\* what meth.execute() can raise besides a backend status
Faults == {"refresh", "timeout", "h429", "ssl"}
NoFault == [at |-> 0, kind |-> "none"]
FaultChoices == {NoFault} \cup [at : 1..MaxFaultAt, kind : Faults]

CloudErrors == {"CloudTokenError", "CloudDisconnectedError", "CloudTemporaryError",
                "CloudFileNotFoundError", "CloudFileExistsError"}

Ctx(fault) ==
    [files |-> files, changes |-> changes, client |-> client, ids |-> ids,
     cursor |-> cursor, rootId |-> rootId, syncRootId |-> syncRootId,
     fault |-> fault, calls |-> 0, muts |-> 0, err |-> "", ret |-> None,
     resp |-> <<>>]

Raise(c, e) == [c EXCEPT !.err = e]
Return(c, v) == [c EXCEPT !.ret = v]
Failed(c) == c.err # ""

\* x = <expression>; <rest of the body, which reads x>
Bind(v, rest(_)) == rest(v)
\* the same where the expression is a call: an exception it raises leaves
\* the body at once
Try(c, rest(_)) == IF Failed(c) THEN c ELSE rest(c)

\* GDriveProvider.disconnect
Disconnect(c) == [c EXCEPT !.client = FALSE]

\* GDriveProvider._api: the exception a failed request is turned into
ApiFault(c, kind) ==
    CASE kind = "refresh" -> Raise(Disconnect(c), "CloudTokenError")
      [] kind = "timeout" -> Raise(Disconnect(c), "CloudDisconnectedError")
      [] kind = "h404" -> Raise(c, "CloudFileNotFoundError")
      [] kind = "h403" -> Raise(c, "CloudTemporaryError")
      [] kind = "h429" -> Raise(c, "CloudTemporaryError")
      [] kind = "h500" -> Raise(c, "CloudTemporaryError")
      [] OTHER -> Raise(c, "SSLError")

\* meth.execute(): the request is on the wire
Sent(c, req) ==
    [c EXCEPT !.calls = @ + 1,
              !.muts = IF Mutating(req) THEN @ + 1 ELSE @,
              !.fault.at = IF @ > 0 THEN @ - 1 ELSE 0]

\* GDriveProvider._api(resource, method, **kwargs)
Api(c, req) ==
    IF ~c.client THEN Raise(c, "CloudDisconnectedError")
    ELSE IF c.fault.at = 1 THEN ApiFault(Sent(c, req), c.fault.kind)
    ELSE Bind(Backend(c.files, c.changes, req), LAMBDA r :
            IF r.status = 404 THEN ApiFault(Sent(c, req), "h404")
            ELSE IF r.status = 403 THEN ApiFault(Sent(c, req), "h403")
            ELSE [Sent(c, req) EXCEPT !.files = r.files, !.changes = r.changes,
                                      !.resp = r.resp])

(* _ids is a dict: iteration follows insertion order, assigning to a key   *)
(* that is present keeps its position, pop removes it.                     *)
IdsHas(d, p) == \E i \in 1..Len(d) : d[i].p = p
IdsIndex(d, p) == CHOOSE i \in 1..Len(d) : d[i].p = p
IdsGet(d, p) == IF IdsHas(d, p) THEN d[IdsIndex(d, p)].o ELSE None
IdsSet(d, p, o) ==
    IF IdsHas(d, p) THEN [d EXCEPT ![IdsIndex(d, p)].o = o]
    ELSE Append(d, [p |-> p, o |-> o])
IdsPop(d, p) ==
    IF ~IdsHas(d, p) THEN d
    ELSE SubSeq(d, 1, IdsIndex(d, p) - 1) \o SubSeq(d, IdsIndex(d, p) + 1, Len(d))
\* the first path the dict maps to oid, in iteration order
IdsPathOf(d, oid) ==
    IF \A i \in 1..Len(d) : d[i].o # oid THEN NoPath
    ELSE d[CHOOSE i \in 1..Len(d) : d[i].o = oid /\ \A j \in 1..(i - 1) : d[j].o # oid].p

\* an info lookup that returns None
NoInfo == [found |-> FALSE, oid |-> None, path |-> NoPath, pids |-> <<>>, name |-> ""]

\* GDriveProvider._info_oid(oid): ret is the GDriveInfo, or NoInfo on a 404
InfoOidRaw(c, oid) ==
    Bind(Api(c, [m |-> "files.get", fileId |-> oid]), LAMBDA c1 :
        IF c1.err = "CloudFileNotFoundError" THEN Return([c1 EXCEPT !.err = ""], NoInfo)
        ELSE IF Failed(c1) THEN c1
        ELSE Return(c1, [found |-> TRUE, oid |-> oid, path |-> NoPath,
                         pids |-> c1.resp.parents, name |-> c1.resp.name]))

RECURSIVE GetParentId(_, _)
RECURSIVE ExistsPath(_, _)
RECURSIVE InfoPath(_, _)

\* GDriveProvider.info_path(path): ret is the info record, or None
InfoPath(c, path) ==
    Try(GetParentId(c, path), LAMBDA c1 :
    Bind(Api(c1, [m |-> "files.list", pid |-> c1.ret,
                  name |-> SplitName(path), anyName |-> FALSE]), LAMBDA c2 :
        IF c2.err = "CloudFileNotFoundError" THEN Return([c2 EXCEPT !.err = ""], NoInfo)
        ELSE IF Failed(c2) THEN c2
        ELSE IF c2.resp.files = <<>> THEN Return(c2, NoInfo)
        ELSE Return([c2 EXCEPT !.ids = IdsSet(@, path, c2.resp.files[1].id)],
                    [found |-> TRUE, oid |-> c2.resp.files[1].id, path |-> path,
                     pids |-> c2.resp.files[1].parents, name |-> ""])))

\* GDriveProvider.exists_path(path)
ExistsPath(c, path) ==
    IF IdsHas(c.ids, path) THEN Return(c, TRUE)
    ELSE Try(InfoPath(c, path), LAMBDA c1 : Return(c1, c1.ret.found))

\* GDriveProvider.get_parent_id(path)
GetParentId(c, path) ==
    IF path = NoPath THEN Return(c, None)
    ELSE IF SplitParent(path) = path THEN Return(c, IdsGet(c.ids, path))
    ELSE Try(ExistsPath(c, SplitParent(path)), LAMBDA c1 :
            IF ~c1.ret THEN Raise(c1, "CloudFileNotFoundError")
            ELSE IF ~IdsHas(c1.ids, SplitParent(path)) THEN Raise(c1, "KeyError")
            ELSE Return(c1, IdsGet(c1.ids, SplitParent(path))))

\* GDriveProvider._path_oid(oid): ret is the path, or NoPath for None.
\* depth counts the frames of the recursion.
RECURSIVE PathOid(_, _, _)
PathOid(c, oid, depth) ==
    IF IdsPathOf(c.ids, oid) # NoPath THEN Return(c, IdsPathOf(c.ids, oid))
    ELSE IF depth >= RecursionLimit THEN Raise(c, "RecursionError")
    ELSE Try(InfoOidRaw(c, oid), LAMBDA c1 :
            IF ~c1.ret.found THEN Return(c1, NoPath)
            ELSE IF c1.ret.pids = <<>> \/ c1.ret.name = "" THEN Return(c1, NoPath)
            ELSE Try(PathOid(c1, c1.ret.pids[1], depth + 1), LAMBDA c2 :
                    IF c2.ret = NoPath THEN Return(c2, NoPath)
                    ELSE Return([c2 EXCEPT !.ids = IdsSet(@, Concat(c2.ret, c1.ret.name), oid)],
                                Concat(c2.ret, c1.ret.name))))

\* GDriveProvider.is_suboid(top, oid).  oid is handed to get_parent_id as
\* if it were a path: a one-token string without separator, or None.
RECURSIVE IsSuboid(_, _, _, _)
IsSuboid(c, top, oid, depth) ==
    IF top = oid THEN Return(c, TRUE)
    ELSE IF depth >= RecursionLimit THEN Raise(c, "RecursionError")
    ELSE Try(GetParentId(c, IF oid = None THEN NoPath ELSE <<oid>>), LAMBDA c1 :
            IF c1.ret = oid THEN Return(c1, FALSE)
            ELSE IsSuboid(c1, top, c1.ret, depth + 1))

\* GDriveProvider.root_id
RootIdProp(c) ==
    IF c.rootId # None THEN Return(c, c.rootId)
    ELSE Try(Api(c, [m |-> "files.get", fileId |-> RootAlias]), LAMBDA c1 :
            Return([c1 EXCEPT !.rootId = c1.resp.id,
                              !.ids = IdsSet(@, RootPath, c1.resp.id)],
                   c1.resp.id))

\* GDriveProvider.cursor
CursorProp(c) ==
    IF c.cursor # 0 THEN Return(c, c.cursor)
    ELSE Try(Api(c, [m |-> "changes.getStartPageToken"]), LAMBDA c1 :
            Return([c1 EXCEPT !.cursor = c1.resp.startPageToken],
                   c1.resp.startPageToken))

-----------------------------------------------------------------------------
(* GDriveProvider: the operations, each evaluated on a call context *)

\* the sync_root the provider is constructed with
SyncRoot == PathOf(<<"s">>)

\* GDriveProvider.mkdir(path): returns nothing
DoMkdir(c, path) ==
    Try(GetParentId(c, path), LAMBDA c1 :
    Try(Api(c1, [m |-> "files.create", pid |-> c1.ret,
                 name |-> SplitName(path), isdir |-> TRUE]), LAMBDA c2 :
        Return([c2 EXCEPT !.ids = IdsSet(@, path, c2.resp.id)], None)))

\* GDriveProvider.sync_root_id
SyncRootIdProp(c) ==
    IF c.syncRootId # None THEN Return(c, c.syncRootId)
    ELSE Try(InfoPath(c, SyncRoot), LAMBDA c1 :
         Try(IF c1.ret.found THEN c1 ELSE DoMkdir(c1, SyncRoot), LAMBDA c2 :
         Try(InfoPath(c2, SyncRoot), LAMBDA c3 :
            IF ~c3.ret.found THEN Raise(c3, "CloudFileNotFoundError")
            ELSE Try(InfoPath(c3, SyncRoot), LAMBDA c4 :
                    IF ~c4.ret.found THEN Raise(c4, "AttributeError")
                    ELSE Return([c4 EXCEPT !.syncRootId = c4.ret.oid], c4.ret.oid)))))

\* GDriveProvider.create(path, file_like)
DoCreate(c, path) ==
    Try(GetParentId(c, path), LAMBDA c1 :
    Try(Api(c1, [m |-> "files.create", pid |-> c1.ret,
                 name |-> SplitName(path), isdir |-> FALSE]), LAMBDA c2 :
        Return([c2 EXCEPT !.ids = IdsSet(@, path, c2.resp.id)],
               [found |-> TRUE, oid |-> c2.resp.id, path |-> path,
                pids |-> <<>>, name |-> ""])))

\* GDriveProvider.upload(oid, file_like)
DoUpload(c, oid) ==
    Try(Api(c, [m |-> "files.update", fileId |-> oid, move |-> FALSE]), LAMBDA c1 :
        Return(c1, [found |-> TRUE, oid |-> c1.resp.id, path |-> NoPath,
                    pids |-> <<>>, name |-> ""]))

\* the loop of rename over list(self._ids.items()): every key that maps to
\* oid is popped and the new path assigned
RECURSIVE RenameIds(_, _, _, _, _)
RenameIds(d, snapshot, i, oid, path) ==
    IF i > Len(snapshot) THEN d
    ELSE IF snapshot[i].o = oid
    THEN RenameIds(IdsSet(IdsPop(d, snapshot[i].p), path, oid), snapshot, i + 1, oid, path)
    ELSE RenameIds(d, snapshot, i + 1, oid, path)

\* GDriveProvider.rename(oid, path)
DoRename(c, oid, path) ==
    Try(GetParentId(c, path), LAMBDA c1 :
    Try(IF c1.ret = RootAlias THEN RootIdProp(c1) ELSE c1, LAMBDA c2 :
    Try(InfoOidRaw(c2, oid), LAMBDA c3 :
        IF ~c3.ret.found THEN Raise(c3, "AttributeError")
        ELSE Try(Api(c3, [m |-> "files.update", fileId |-> oid, move |-> TRUE,
                          name |-> SplitName(path), pid |-> c2.ret]), LAMBDA c4 :
                Return([c4 EXCEPT !.ids = RenameIds(@, @, 1, oid, path)], None)))))

\* GDriveProvider.delete(oid)
DoDelete(c, oid) ==
    Try(Api(c, [m |-> "files.delete", fileId |-> oid]), LAMBDA c1 : Return(c1, None))

\* GDriveProvider.listdir(oid): ent['md5Checksum'] is read of every entry
DoListdir(c, oid) ==
    Bind(Api(c, [m |-> "files.list", pid |-> oid, name |-> "", anyName |-> TRUE]), LAMBDA c1 :
        IF c1.err = "CloudFileNotFoundError"
        THEN Try(InfoOidRaw([c1 EXCEPT !.err = ""], oid), LAMBDA c2 :
                IF c2.ret.found THEN Return(c2, <<>>)
                ELSE Raise(c2, "CloudFileNotFoundError"))
        ELSE IF Failed(c1) THEN c1
        ELSE IF \E i \in 1..Len(c1.resp.files) : ~c1.resp.files[i].hasMd5
        THEN Raise(c1, "KeyError")
        ELSE Return(c1, c1.resp.files))

\* GDriveProvider.info_oid(oid): builds a ProviderInfo and returns nothing
DoInfoOid(c, oid) ==
    Try(InfoOidRaw(c, oid), LAMBDA c1 :
    Try(PathOid(c1, oid, 0), LAMBDA c2 :
        IF ~c1.ret.found THEN Raise(c2, "AttributeError")
        ELSE Return(c2, None)))

\* what MediaIoBaseDownload.next_chunk() can raise
ChunkFaults == {"none", "h416", "h500", "timeout", "refresh", "ssl"}

\* the download loop once the request is made
Chunk(c, oid, chunk) ==
    CASE chunk = "timeout" -> Raise(Disconnect(c), "CloudDisconnectedError")
      [] chunk = "h500" -> Raise(c, "CloudTemporaryError")
      [] chunk = "refresh" -> Raise(c, "HttpAccessTokenRefreshError")
      [] chunk = "ssl" -> Raise(c, "SSLError")
      [] chunk = "h416" -> Return(c, None)
      [] OTHER -> IF Alive(c.files, oid) /\ Resolve(oid) # RootOid
                  THEN Return(c, None)
                  ELSE Raise(c, "CloudFileNotFoundError")

\* GDriveProvider.download(oid, file_like)
DoDownload(c, oid, chunk) ==
    IF ~c.client THEN Raise(c, "AttributeError")
    ELSE Chunk([c EXCEPT !.calls = @ + 1], oid, chunk)

\* how client.GoogleCredentials.refresh / build end
CredsOutcomes == {"ok", "refresh", "network"}

\* GDriveProvider.get_quota
GetQuota(c) == Api(c, [m |-> "about.get"])

\* the body of connect while self.client is None
Build(c, creds) ==
    IF creds = "refresh" THEN Raise(Disconnect(c), "CloudTokenError")
    ELSE IF creds = "network" THEN Raise(c, "ServerNotFoundError")
    ELSE Bind(GetQuota([c EXCEPT !.client = TRUE]), LAMBDA q :
            IF q.err = "SSLError" THEN GetQuota([q EXCEPT !.err = ""]) ELSE q)

\* GDriveProvider.connect(creds)
DoConnect(c, creds) ==
    Try(IF c.client THEN c ELSE Build(c, creds), LAMBDA c1 :
    Try(SyncRootIdProp(c1), LAMBDA c2 :
        IF c2.ret = None THEN Raise(c2, "CloudFileNotFoundError")
        ELSE Return(c2, None)))

-----------------------------------------------------------------------------
(* What is true on the backend, for stating the properties *)

\* the names from the root down to oid; <<"#">> when oid hangs nowhere
RECURSIVE TrueNames(_, _, _)
TrueNames(fs, oid, fuel) ==
    IF oid = RootOid THEN <<>>
    ELSE IF fuel = 0 \/ oid \notin Oids THEN <<"#">>
    ELSE IF fs[oid].st # "alive" THEN <<"#">>
    ELSE Append(TrueNames(fs, fs[oid].parent, fuel - 1), fs[oid].name)

TruePath(fs, oid) ==
    IF oid = RootOid THEN RootPath
    ELSE PathOf(TrueNames(fs, oid, Cardinality(Oids) + 1))

\* the live directories (or the root) whose path on the backend is path
DirsAt(fs, path) ==
    {o \in Oids \cup {RootOid} :
        /\ Alive(fs, o)
        /\ o # RootOid => fs[o].isdir
        /\ TruePath(fs, o) = path}

InsideSyncRoot(fs, oid) ==
    /\ oid \in Oids
    /\ fs[oid].st = "alive"
    /\ IsSubpath(SyncRoot, TruePath(fs, oid), FALSE)

-----------------------------------------------------------------------------
(* GDriveProvider.events(timeout): a generator.  One resumption (next())   *)
(* runs it from where it is suspended to its next yield, return or raise.  *)

\* at is the stored cursor when the batch in hand was fetched
NoGen == [pc |-> "none", budget |-> 0, tok |-> 0, batch |-> <<>>, idx |-> 0,
          next |-> 0, newStart |-> 0, got |-> FALSE, quiet |-> FALSE, at |-> 0]
NoEvent == [oid |-> None, path |-> NoPath, exists |-> FALSE]

GenEnd(m, how) == [m EXCEPT !.out = how]
\* an exception leaves the generator
GenRaise(m, c1) == [m EXCEPT !.c = c1, !.out = "raise"]

\* a variant that stores newStartPageToken as soon as the response is in
GenFetchedEager(m, c1) ==
    [m EXCEPT !.c = [c1 EXCEPT !.cursor = IF c1.resp.newStartPageToken # 0
                                          THEN c1.resp.newStartPageToken ELSE @],
              !.g.at = c1.cursor,
              !.g.batch = c1.resp.changes,
              !.g.idx = 1,
              !.g.next = c1.resp.nextPageToken,
              !.g.newStart = c1.resp.newStartPageToken,
              !.g.quiet = @ \/ (m.g.got /\ c1.resp.changes = <<>>)]

\* response = self._api('changes', 'list', pageToken=page_token, ...)
GenFetched(m, c1) ==
    [m EXCEPT !.c = c1,
              !.g.at = c1.cursor,
              !.g.batch = c1.resp.changes,
              !.g.idx = 1,
              !.g.next = c1.resp.nextPageToken,
              !.g.newStart = c1.resp.newStartPageToken,
              !.g.quiet = @ \/ (m.g.got /\ c1.resp.changes = <<>>)]

\* page_token = response.get('nextPageToken'); the cursor moves to
\* newStartPageToken when the response carries one
GenBatchDone(m) ==
    [m EXCEPT !.g.tok = m.g.next,
              !.g.batch = <<>>,
              !.g.idx = 0,
              !.c.cursor = IF m.g.newStart # 0 THEN m.g.newStart ELSE @]

\* a variant that leaves the polling loop after any pass
GenBreakAlways(m) == TRUE

\* if got_something: break
GenBreak(m) == m.g.got

\* the change at idx of the batch is skipped (continue)
GenSkip(m, c1) ==
    [m EXCEPT !.c = c1,
              !.g.idx = @ + 1,
              !.h.handled = @ \cup {m.g.tok + m.g.idx - 1}]

\* yield event
GenYield(m, c1, oid, path, exists) ==
    [m EXCEPT !.c = c1,
              !.out = "yield",
              !.ev = [oid |-> oid, path |-> path, exists |-> exists],
              !.h.handled = @ \cup {m.g.tok + m.g.idx - 1},
              !.h.redelivered = @ \/ (m.g.tok + m.g.idx - 1) \in m.h.handled]

\* the change has no path: it is kept when is_suboid(sync_root_id, oid)
GenPathless(m, c1, change) ==
    Bind(SyncRootIdProp(c1), LAMBDA c2 :
        IF Failed(c2) THEN GenRaise(m, c2)
        ELSE Bind(IsSuboid(c2, c2.ret, change.fileId, 0), LAMBDA c3 :
                IF Failed(c3) THEN GenRaise(m, c3)
                ELSE IF ~c3.ret THEN GenSkip(m, c3)
                ELSE GenYield(m, c3, change.fileId, NoPath, ~change.removed)))

\* the body of the loop over response.get('changes') for one change:
\* resolve the path, filter on the sync root
GenChange(m, change) ==
    Bind(PathOid(m.c, change.fileId, 0), LAMBDA c1 :
        IF Failed(c1) THEN GenRaise(m, c1)
        ELSE IF c1.ret = NoPath THEN GenPathless(m, c1, change)
        ELSE IF ~IsSubpath(SyncRoot, c1.ret, FALSE) THEN GenSkip(m, c1)
        ELSE GenYield(m, c1, change.fileId, c1.ret, ~change.removed))

RECURSIVE GenIter(_)
RECURSIVE GenPage(_)
RECURSIVE GenBatch(_)

\* for _ in time_helper(timeout, sleep=3): page_token = self.cursor
GenIter(m) ==
    IF m.g.budget = 0 THEN GenEnd(m, "return")
    ELSE Bind(CursorProp(m.c), LAMBDA c1 :
            IF Failed(c1) THEN GenRaise(m, c1)
            ELSE GenPage([m EXCEPT !.c = c1,
                                   !.g.budget = @ - 1,
                                   !.g.tok = c1.ret,
                                   !.h.start = IF @ = 0 THEN c1.ret ELSE @]))

\* while page_token is not None
GenPage(m) ==
    IF m.g.tok = 0
    THEN IF GenBreak(m) THEN GenEnd(m, "return") ELSE GenIter(m)
    ELSE Bind(Api(m.c, [m |-> "changes.list", token |-> m.g.tok]), LAMBDA c1 :
            IF Failed(c1) THEN GenRaise(m, c1)
            ELSE GenBatch(GenFetched(m, c1)))

\* for change in response.get('changes')
GenBatch(m) ==
    IF m.g.idx > Len(m.g.batch) THEN GenPage(GenBatchDone(m))
    ELSE Bind(GenChange(m, m.g.batch[m.g.idx]), LAMBDA m1 :
            IF m1.out # "" THEN m1 ELSE GenBatch(m1))

\* next(generator)
GenResume(c, g, h) ==
    IF g.pc = "fresh"
    THEN GenIter([c |-> c, g |-> [g EXCEPT !.budget = TimeBudget, !.got = FALSE],
                  h |-> h, out |-> "", ev |-> NoEvent])
    ELSE GenBatch([c |-> c, g |-> [g EXCEPT !.got = TRUE, !.idx = @ + 1],
                   h |-> h, out |-> "", ev |-> NoEvent])

-----------------------------------------------------------------------------
(* GDriveProvider: the state machine *)

\* the arguments the calls are made with
CreatePaths == {PathOf(<<"s", "f">>)}
MkdirPaths == {PathOf(<<"s", "e">>)}
RenameOids == {"d", "a"}
RenamePaths == {PathOf(<<"o", "d">>), PathOf(<<"o", "x", "g">>)}
LookupPaths == {PathOf(<<"s", "d", "a">>), PathOf(<<"o", "d", "a">>)}
DeleteOids == {"d", "a"}
ListOids == {"s", "d"}
FileOids == {"a"}

\* the backend before the provider is constructed: /s, /o, /s/d, /s/d/a
InitFiles ==
    [x \in Oids |->
        CASE x = "s" -> [st |-> "alive", name |-> "s", parent |-> RootOid, isdir |-> TRUE]
          [] x = "o" -> [st |-> "alive", name |-> "o", parent |-> RootOid, isdir |-> TRUE]
          [] x = "d" -> [st |-> "alive", name |-> "d", parent |-> "s", isdir |-> TRUE]
          [] x = "a" -> [st |-> "alive", name |-> "a", parent |-> "d", isdir |-> FALSE]
          [] OTHER -> FreeFile]

NoHist == [start |-> 0, handled |-> {}, redelivered |-> FALSE]

\* the longest time budget run() is called with, in loop turns
MaxTimeout == 2
\* how many injected events the manager is driven to hold
MaxQueue == 2
\* the remote paths the event manager is driven over
EPaths == {PathOf(<<"fandango">>), PathOf(<<"dest">>)}
\* manager.local_path(remote_path) and its inverse
LocalRoot == PathOf(<<"tmp">>)
LocalPath(path) == LocalRoot \o path
RemotePath(lpath) == SubSeq(lpath, Len(LocalRoot) + 1, Len(lpath))
ELocals == {LocalPath(path) : path \in EPaths}

\* EventManager(MockProvider()) of tests/test_events.py, no local file yet
NoRun == [pc |-> "idle", left |-> 0, until |-> "", why |-> ""]
NoEng ==
    [lfs |-> [lp \in ELocals |-> [exists |-> FALSE, contents |-> "", noted |-> TRUE]],
     pfs |-> [path \in EPaths |-> [stored |-> FALSE, contents |-> "", exists |-> FALSE,
                                   id |-> 0]],
     made |-> 0,
     queue |-> <<>>,
     entries |-> [path \in EPaths |-> "UNRESOLVED"],
     run |-> NoRun,
     err |-> ""]
EInit == eng = NoEng

\* how many threads share the provider
MaxThreads == 2
Threads == 1..MaxThreads
\* a thread that is in no provider call
NoThread == [pc |-> "idle", op |-> "", rq |-> "", oid |-> None, path |-> NoPath,
             pid |-> None, snap |-> <<>>, had |-> 0, cur |-> None, chain |-> <<>>,
             rp |-> NoPath, err |-> ""]
NoSeen == [by |-> 0, oid |-> None, n |-> 0, moving |-> FALSE]
\* no thread has called yet, threading.Lock() is free
TInit ==
    /\ thr = [t \in Threads |-> NoThread]
    /\ mutex = 0
    /\ seen = NoSeen

NoLast == [op |-> "", err |-> "", muts |-> 0, pre |-> FALSE, same |-> TRUE,
           fin |-> FALSE, left |-> 0, got |-> FALSE, quiet |-> FALSE,
           yielded |-> FALSE, inside |-> FALSE, exists |-> FALSE,
           mid |-> FALSE, kept |-> TRUE, none |-> FALSE, yes |-> FALSE,
           oid |-> None, path |-> NoPath]

\* GDriveProvider.__init__, the backend holding fs
GStart(fs) ==
    /\ files = fs
    /\ changes = <<>>
    /\ client = FALSE
    /\ ids = <<[p |-> RootPath, o |-> RootAlias]>>
    /\ cursor = 0
    /\ rootId = None
    /\ syncRootId = None
    /\ gen = NoGen
    /\ hist = NoHist
    /\ last = NoLast

GInit == GStart(InitFiles)

\* the provider and the backend after a call that ended in context c
Commit(c) ==
    /\ files' = c.files
    /\ changes' = c.changes
    /\ client' = c.client
    /\ ids' = c.ids
    /\ cursor' = c.cursor
    /\ rootId' = c.rootId
    /\ syncRootId' = c.syncRootId

\* the record of a call: pre is the case of the call a property is about
Called(op, c, pre) ==
    [NoLast EXCEPT !.op = op, !.err = c.err, !.muts = c.muts, !.pre = pre,
                   !.same = (c.ids = ids)]

\* a call that ended in context c and is recorded as l
CallAs(c, l) ==
    /\ Commit(c)
    /\ last' = l
    /\ UNCHANGED <<gen, hist, ovars, tvars>>

Call(op, c, pre) == CallAs(c, Called(op, c, pre))

Room == Len(changes) < MaxChanges
Clean(fault) == client /\ fault = NoFault

Connect(faults) ==
    \E creds \in CredsOutcomes, fault \in faults :
        /\ Room
        /\ Call("connect", DoConnect(Ctx(fault), creds), ~client)

DisconnectCall ==
    /\ client
    /\ Call("disconnect", Disconnect(Ctx(NoFault)), TRUE)

Create(faults) ==
    \E path \in CreatePaths, fault \in faults :
        /\ Room
        /\ Call("create", DoCreate(Ctx(fault), path), Clean(fault))

Mkdir(faults) ==
    \E path \in MkdirPaths, fault \in faults :
        /\ Room
        /\ \E c \in {DoMkdir(Ctx(fault), path)} :
              CallAs(c, [Called("mkdir", c, Clean(fault)) EXCEPT
                            !.path = path,
                            !.oid = IF Failed(c) THEN None ELSE c.ret])

Upload(faults) ==
    \E oid \in FileOids, fault \in faults :
        /\ Room
        /\ Call("upload", DoUpload(Ctx(fault), oid), Clean(fault))

\* pre: the parent directory of the new path does not exist on the backend
Rename(oids, paths, faults) ==
    \E oid \in oids, path \in paths, fault \in faults :
        /\ Room
        /\ Call("rename", DoRename(Ctx(fault), oid, path),
                Clean(fault) /\ DirsAt(files, SplitParent(path)) = {})

\* pre: the backend does not have oid
Delete(oids, faults) ==
    \E oid \in oids, fault \in faults :
        /\ Room
        /\ Call("delete", DoDelete(Ctx(fault), oid),
                Clean(fault) /\ ~Alive(files, oid))

Listdir(faults) ==
    \E oid \in ListOids, fault \in faults :
        Call("listdir", DoListdir(Ctx(fault), oid), Clean(fault))

InfoPathCall(paths, faults) ==
    \E path \in paths, fault \in faults :
        Call("info_path", InfoPath(Ctx(fault), path), Clean(fault))

ExistsPathCall(faults) ==
    \E path \in LookupPaths, fault \in faults :
        \E c \in {ExistsPath(Ctx(fault), path)} :
            CallAs(c, [Called("exists_path", c, Clean(fault)) EXCEPT
                          !.path = path,
                          !.yes = IF Failed(c) THEN FALSE ELSE c.ret])

InfoOid(faults) ==
    \E oid \in FileOids, fault \in faults :
        \E c \in {DoInfoOid(Ctx(fault), oid)} :
            CallAs(c, [Called("info_oid", c, Clean(fault)) EXCEPT
                          !.oid = oid,
                          !.exists = Alive(files, oid),
                          !.none = IF Failed(c) THEN FALSE ELSE c.ret = None])

\* _path_oid(oid): path is what it returns (NoPath for None); exists: the
\* object and all its ancestors up to the root are alive; yes: the oid was
\* in the cache before the call
PathOidCall(oids, faults) ==
    \E oid \in oids, fault \in faults :
        \E c \in {PathOid(Ctx(fault), oid, 0)} :
            CallAs(c, [Called("_path_oid", c, Clean(fault)) EXCEPT
                          !.oid = oid,
                          !.path = IF Failed(c) THEN NoPath ELSE c.ret,
                          !.exists = \A k \in 1..Len(TruePath(files, oid)) :
                                        TruePath(files, oid)[k] # "#",
                          !.yes = IdsPathOf(ids, oid) # NoPath])

IsSuboidCall(tops, oids) ==
    \E top \in tops, oid \in oids :
        Call("is_suboid", IsSuboid(Ctx(NoFault), top, oid, 0), client)

Download ==
    \E oid \in FileOids, chunk \in ChunkFaults :
        Call("download", DoDownload(Ctx(NoFault), oid, chunk), client)

\* events(timeout): the generator object is made, no code of it runs yet
EventsCall ==
    /\ gen.pc = "none"
    /\ gen' = [NoGen EXCEPT !.pc = "fresh"]
    /\ last' = [NoLast EXCEPT !.op = "events()"]
    /\ UNCHANGED <<files, changes, client, ids, cursor, rootId, syncRootId, hist, ovars, tvars>>

\* next() on the generator.  pre: the provider was connected when resumed
EventsNext ==
    \E fault \in FaultChoices :
        /\ gen.pc \in {"fresh", "yield"}
        /\ \E m \in {GenResume(Ctx(fault), gen, hist)} :
              /\ Commit(m.c)
              /\ hist' = m.h
              /\ UNCHANGED <<ovars, tvars>>
              /\ gen' = IF m.out = "yield" THEN [m.g EXCEPT !.pc = "yield"] ELSE NoGen
              /\ last' = [Called("events", m.c, client) EXCEPT
                            !.fin = (m.out # "yield"),
                            !.left = IF m.out = "yield" THEN 0 ELSE m.g.budget,
                            !.got = m.g.got,
                            !.quiet = m.g.quiet,
                            !.yielded = (m.out = "yield"),
                            !.exists = m.ev.exists,
                            !.mid = (m.out = "raise" /\ m.g.batch # <<>>),
                            !.kept = (m.c.cursor = m.g.at),
                            !.inside = (m.out = "yield" /\ InsideSyncRoot(m.c.files, m.ev.oid))]

\* the consumer drops the generator where it is suspended
EventsAbandon ==
    /\ gen.pc \in {"fresh", "yield"}
    /\ gen' = NoGen
    /\ last' = [NoLast EXCEPT !.op = "events.close"]
    /\ UNCHANGED <<files, changes, client, ids, cursor, rootId, syncRootId, hist, ovars, tvars>>

-----------------------------------------------------------------------------
(* MockProvider.  An object's oid is str(id(self)): objects are numbered   *)
(* in the order they are made and the number is the oid.  _fs_by_oid is a  *)
(* dict, kept as the list of its keys in iteration order.                  *)

MockRoot == RootPath
\* the arguments the calls are made with
MCreatePaths == {PathOf(<<"a">>), PathOf(<<"d", "a">>), PathOf(<<"x", "a">>)}
MMkdirPaths == {PathOf(<<"d">>)}
MRenamePaths == {PathOf(<<"b">>), PathOf(<<"d", "a">>), PathOf(<<"x", "b">>), PathOf(<<"e">>)}
MContents == {"hello"}

MFile == "mock file"
MDir == "mock dir"

MCtx ==
    [fs |-> mfs, bypath |-> mpath, byoid |-> moid, events |-> mevents,
     latest |-> mlatest, cursor |-> mcursor, err |-> "", ret |-> 0]

MHasPath(m, p) == p \in DOMAIN m.bypath
\* MockProvider._get_by_path(path): the oid, 0 for None
MGetByPath(m, p) == IF MHasPath(m, p) THEN m.bypath[p] ELSE 0
MHasOid(m, o) == \E i \in 1..Len(m.byoid) : m.byoid[i] = o
\* `file and file.exists` of the object _fs_by_oid.get(oid)
MLive(m, o) == MHasOid(m, o) /\ m.fs[o].exists

\* MockProvider._register_event(action, target_object): the event keeps a
\* copy of the object as it is now
MRegisterEvent(m, action, o) ==
    LET ev == [action |-> action, oid |-> o, type |-> m.fs[o].type,
               trashed |-> ~m.fs[o].exists]
    IN [m EXCEPT !.events = Append(@, ev), !.latest = Len(m.events) + 1 - 1]

\* MockProvider._store_object(fo)
MStore(m, o) ==
    [m EXCEPT !.bypath = [x \in DOMAIN m.bypath \cup {m.fs[o].path} |->
                             IF x = m.fs[o].path THEN o ELSE m.bypath[x]],
              !.byoid = IF MHasOid(m, o) THEN @ ELSE Append(@, o)]

\* MockProvider._unstore_object(fo): del of both keys
MUnstore(m, o) ==
    IF ~MHasPath(m, m.fs[o].path) \/ ~MHasOid(m, o) THEN Raise(m, "KeyError")
    ELSE [m EXCEPT !.bypath = [x \in DOMAIN m.bypath \ {m.fs[o].path} |-> m.bypath[x]],
                   !.byoid = SelectSeq(@, LAMBDA x : x # o)]

\* MockFSObject(path, object_type) followed by _store_object
MNewObject(m, path, type) ==
    LET o == Len(m.fs) + 1
        m1 == [m EXCEPT !.fs = Append(@, [path |-> path, contents |-> "", exists |-> TRUE,
                                          type |-> type])]
    IN Return(MStore(m1, o), o)

\* Provider._verify_parent_folder_exists(path)
MVerifyParent(m, path) ==
    LET parent == SplitParent(path)
        o == MGetByPath(m, parent)
    IN IF parent = MockRoot THEN m
       ELSE IF o = 0 \/ ~m.fs[o].exists THEN Raise(m, "CloudFileNotFoundError")
       ELSE IF m.fs[o].type # MDir THEN Raise(m, "CloudFileExistsError")
       ELSE m

\* whether listdir(oid) yields anything: a live object directly below
MHasChild(m, o) ==
    \E i \in 1..Len(m.byoid) :
        LET x == m.fs[m.byoid[i]]
        IN /\ x.exists
           /\ IsSubpath(m.fs[o].path, x.path, TRUE)
           /\ SplitParent(x.path) = m.fs[o].path

\* a variant that tests only that the oid is stored, not file.exists
MDoDeleteStored(m, o) ==
    IF ~MHasOid(m, o) THEN Return(m, 0)
    ELSE MRegisterEvent([m EXCEPT !.fs[o].exists = FALSE], "provider delete", o)

\* MockProvider.delete(oid)
MDoDelete(m, o) ==
    IF ~MLive(m, o) THEN Return(m, 0)
    ELSE MRegisterEvent([m EXCEPT !.fs[o].exists = FALSE], "provider delete", o)

\* the object create writes to: a new one, or the deleted one at the path
\* when oids are recycled
MTarget(m, path, recycle) ==
    IF MGetByPath(m, path) = 0 \/ ~recycle THEN MNewObject(m, path, MFile)
    ELSE Return(m, MGetByPath(m, path))

\* MockProvider.create(path, file_like)
MDoCreate(m, path, contents, recycle) ==
    IF MGetByPath(m, path) # 0 /\ m.fs[MGetByPath(m, path)].exists
    THEN Raise(m, "CloudFileExistsError")
    ELSE Try(MVerifyParent(m, path), LAMBDA m1 :
         Bind(MTarget(m1, path, recycle), LAMBDA m2 :
            Return(MRegisterEvent([m2 EXCEPT !.fs[m2.ret].contents = contents,
                                             !.fs[m2.ret].exists = TRUE],
                                  "provider create", m2.ret), m2.ret)))

\* MockProvider.mkdir(path)
MDoMkdir(m, path) ==
    LET m1 == MVerifyParent(m, path)
        f == MGetByPath(m, path)
    IN IF Failed(m1) THEN m1
       ELSE IF f # 0 /\ m.fs[f].exists
       THEN IF m.fs[f].type = MFile THEN Raise(m, "CloudFileExistsError")
            ELSE Return(m, f)
       ELSE LET m2 == MNewObject(m, path, MDir)
            IN Return(MRegisterEvent(m2, "provider create", m2.ret), m2.ret)

\* MockProvider.upload(oid, file_like)
MDoUpload(m, o, contents) ==
    IF ~MLive(m, o) THEN Raise(m, "CloudFileNotFoundError")
    ELSE IF m.fs[o].type # MFile THEN Raise(m, "CloudFileExistsError")
    ELSE Return(MRegisterEvent([m EXCEPT !.fs[o].contents = contents],
                               "provider modify", o), o)

\* a variant that stores the object at the new path and leaves the old key
MRenameSingleKept(m, o, dest) ==
    MRegisterEvent(MStore([m EXCEPT !.fs[o].path = dest], o), "provider rename", o)

\* MockProvider._rename_single_object(source_object, destination_path)
MRenameSingle(m, o, dest) ==
    LET m1 == MUnstore(m, o)
    IN IF Failed(m1) THEN m1
       ELSE MRegisterEvent(MStore([m1 EXCEPT !.fs[o].path = dest], o),
                           "provider rename", o)

\* Provider.replace_path(path, from_dir, to_dir)
ReplacePath(path, from, to) == to \o SubSeq(path, Len(from) + 1, Len(path))

\* the loop of rename over self._fs_by_oid.values() for a directory: the
\* dict is changed while it is iterated, a renamed object leaves its place
\* and is met again at the end of the dict; an object that is under the old
\* path again each time is renamed until the dict's table is rebuilt, which
\* ends the iteration
RECURSIVE MRenameTree(_, _, _, _, _)
MRenameTree(m, i, old, new, fuel) ==
    IF i > Len(m.byoid) THEN m
    ELSE IF fuel = 0 THEN m
    ELSE LET o == m.byoid[i]
         IN IF IsSubpath(old, m.fs[o].path, FALSE)
            THEN LET m1 == MRenameSingle(m, o, ReplacePath(m.fs[o].path, old, new))
                 IN IF Failed(m1) THEN m1
                    ELSE MRenameTree(m1, i, old, new, fuel - 1)
            ELSE MRenameTree(m, i + 1, old, new, fuel)

\* whether a live object is stored at the path
MClash(m, path) == MGetByPath(m, path) # 0 /\ m.fs[MGetByPath(m, path)].exists

\* MockProvider.rename(oid, new_path)
MDoRename(m, o, new) ==
    IF ~MLive(m, o) THEN Raise(m, "CloudFileNotFoundError")
    ELSE Try(MVerifyParent(m, new), LAMBDA m1 :
        IF MClash(m, new) /\ m.fs[MGetByPath(m, new)].type # m.fs[o].type
        THEN Raise(m1, "CloudFileExistsError")
        ELSE IF MClash(m, new) /\ m.fs[MGetByPath(m, new)].type = MDir
                /\ MHasChild(m1, MGetByPath(m, new))
        THEN Raise(m1, "CloudFileExistsError")
        ELSE Bind(IF MClash(m, new) THEN MDoDelete(m1, MGetByPath(m, new)) ELSE m1, LAMBDA m2 :
             Try(IF m2.fs[o].type = MFile
                 THEN MRenameSingle(m2, o, new)
                 ELSE MRenameTree(m2, 1, m2.fs[o].path, new, 2 * Len(m2.byoid)), LAMBDA m3 :
                Return(MRegisterEvent(m3, "provider rename", o), 0))))

\* list(self.events()): the cursor runs up to the latest event
MDrain(m) == [m EXCEPT !.cursor = IF @ < m.latest THEN m.latest ELSE @]

\* MockProvider._type_map
MTypeMap(type) == IF type = MFile THEN "file" ELSE IF type = MDir THEN "directory" ELSE ""

\* MockProvider._translate_event(pe): Event(type, oid, None, None, not
\* trashed, mtime) of the serialized event
MTranslate(pe) == [otype |-> MTypeMap(pe.type), oid |-> pe.oid, exists |-> ~pe.trashed]

\* a variant that reads exists from the object as it is when the event is
\* consumed
MEventsListNow(m) ==
    [MDrain(m) EXCEPT !.ret =
        [i \in 1..(IF m.cursor < m.latest THEN m.latest - m.cursor ELSE 0) |->
            [MTranslate(m.events[m.cursor + i + 1]) EXCEPT
                !.exists = m.fs[m.events[m.cursor + i + 1].oid].exists]]]

\* list(self.events()): ret is the list of the events yielded, the event
\* of index k of the code is m.events[k + 1]
MEventsList(m) ==
    [MDrain(m) EXCEPT !.ret =
        [i \in 1..(IF m.cursor < m.latest THEN m.latest - m.cursor ELSE 0) |->
            MTranslate(m.events[m.cursor + i + 1])]]

\* MockFSObject.hash(): None for a directory, the md5 digest of the
\* contents otherwise
NoHash == <<>>
Md5(contents) == <<"md5", contents>>
MHash(m, o) == IF m.fs[o].type = MDir THEN NoHash ELSE Md5(m.fs[o].contents)

\* OInfo(otype, oid, hash, path) of a stored object, and None
MNone == [found |-> FALSE, oid |-> 0, path |-> NoPath, hash |-> NoHash, type |-> ""]
MOInfo(m, o) ==
    [found |-> TRUE, oid |-> o, path |-> m.fs[o].path, hash |-> MHash(m, o),
     type |-> m.fs[o].type]

\* MockProvider.info_oid(oid)
MInfoOid(m, o) == IF ~MLive(m, o) THEN MNone ELSE MOInfo(m, o)

\* MockProvider.info_path(path)
MInfoPath(m, path) == IF ~MClash(m, path) THEN MNone ELSE MOInfo(m, MGetByPath(m, path))

\* MockProvider.download(oid, file_like): ret is what is written
MDoDownload(m, o) ==
    IF ~MLive(m, o) THEN Raise(m, "CloudFileNotFoundError")
    ELSE Return(m, m.fs[o].contents)

\* MockProvider.walk(): one Event for each stored object strictly below the
\* sync root, in the order of _fs_by_oid
MWalk(m) ==
    Bind(SelectSeq(m.byoid, LAMBDA o : IsSubpath(MockRoot, m.fs[o].path, TRUE)), LAMBDA below :
        [i \in 1..Len(below) |->
            [type |-> m.fs[below[i]].type, oid |-> below[i], path |-> m.fs[below[i]].path,
             hash |-> MHash(m, below[i]), exists |-> m.fs[below[i]].exists]])

MNoLast == [op |-> "", oid |-> 0, err |-> "", pre |-> FALSE, same |-> TRUE,
            path |-> NoPath, old |-> NoPath, content |-> "", hash |-> NoHash,
            was |-> NoHash, out |-> <<>>, got |-> <<>>, new |-> <<>>, live |-> FALSE,
            dir |-> FALSE, target |-> 0, fits |-> FALSE, sub |-> {}, rest |-> {},
            parent |-> FALSE]

\* MockProvider.__init__(sync_root="/"): mkdir of the root, events drained
MInit ==
    /\ mfs = <<[path |-> MockRoot, contents |-> "", exists |-> TRUE, type |-> MDir]>>
    /\ mpath = [x \in {MockRoot} |-> 1]
    /\ moid = <<1>>
    /\ mevents = <<[action |-> "provider create", oid |-> 1, type |-> MDir, trashed |-> FALSE]>>
    /\ mlatest = 0
    /\ mcursor = 0
    /\ mlast = MNoLast

MSame(m) ==
    /\ m.fs = mfs
    /\ m.bypath = mpath
    /\ m.byoid = moid
    /\ m.events = mevents
    /\ m.latest = mlatest
    /\ m.cursor = mcursor

\* the record of a call: pre is the case of the call a property is about
MCalled(op, o, m, pre) ==
    [MNoLast EXCEPT !.op = op, !.oid = o, !.err = m.err, !.pre = pre, !.same = MSame(m),
                    !.got = mlast.got,
                    !.new = SubSeq(m.events, Len(mevents) + 1, Len(m.events))]

\* a call that ended in context m and is recorded as l
MCallAs(m, l) ==
    /\ mfs' = m.fs
    /\ mpath' = m.bypath
    /\ moid' = m.byoid
    /\ mevents' = m.events
    /\ mlatest' = m.latest
    /\ mcursor' = m.cursor
    /\ mlast' = l
    /\ UNCHANGED <<mrecycle, last, gen, hist, files, changes, client, ids, cursor, rootId,
                   syncRootId, tvars, eng>>

MCall(op, o, m, pre) == MCallAs(m, MCalled(op, o, m, pre))

MRoom == Len(mfs) < MaxObjects /\ Len(mevents) < MaxEvents
MOids == 1..MaxObjects

MCreate ==
    \E path \in MCreatePaths, contents \in MContents :
        /\ MRoom
        /\ MCall("create", 0, MDoCreate(MCtx, path, contents, mrecycle), TRUE)

MMkdir ==
    \E path \in MMkdirPaths :
        /\ MRoom
        /\ MCall("mkdir", 0, MDoMkdir(MCtx, path), TRUE)

MUpload ==
    \E o \in MOids, contents \in MContents :
        /\ MRoom
        /\ MCall("upload", o, MDoUpload(MCtx, o, contents), TRUE)

\* pre: the oid was never stored, or is deleted
MDelete ==
    \E o \in MOids :
        /\ MRoom
        /\ MCall("delete", o, MDoDelete(MCtx, o), ~MLive(MCtx, o))

\* pre: the oid is live and the parent directory of the new path is absent
MRename ==
    \E o \in MOids \ {1}, path \in MRenamePaths :
        /\ MRoom
        /\ MCall("rename", o, MDoRename(MCtx, o, path),
                 /\ MLive(MCtx, o)
                 /\ SplitParent(path) # MockRoot
                 /\ ~(MHasPath(MCtx, SplitParent(path))
                      /\ mfs[mpath[SplitParent(path)]].exists))

MEvents ==
    /\ mcursor < mlatest
    /\ MCall("events", 0, MDrain(MCtx), TRUE)

MNext ==
    \/ MCreate
    \/ MMkdir
    \/ MUpload
    \/ MDelete
    \/ MRename
    \/ MEvents

\* create(path, file_like) and the OInfo it returns.  pre: no live object
\* is at the path
MCreateAs(path, content) ==
    \E m \in {MDoCreate(MCtx, path, content, mrecycle)} :
        MCallAs(m, [MCalled("create", IF Failed(m) THEN 0 ELSE m.ret, m,
                            ~MClash(MCtx, path)) EXCEPT
                       !.path = path,
                       !.content = content,
                       !.hash = IF Failed(m) THEN NoHash ELSE MOInfo(m, m.ret).hash])

MCreateInfo(paths, contents) ==
    \E path \in paths, content \in contents :
        /\ MRoom
        /\ MCreateAs(path, content)

\* the live objects that are inside the subtree of the path (in = TRUE) or
\* outside of it, each with its path
MTreeOf(m, path, in) ==
    {<<m.byoid[i], m.fs[m.byoid[i]].path>> : i \in
        {j \in 1..Len(m.byoid) :
            /\ m.fs[m.byoid[j]].exists
            /\ IsSubpath(path, m.fs[m.byoid[j]].path, FALSE) = in}}

\* rename(oid, new_path).  pre: oid is a live file and new_path is not its
\* path.  The record keeps what the caller could have asked before the
\* call: whether the oid was live and a directory, the live object at
\* new_path (target, 0 for none) and whether rename may replace it (fits:
\* the same type, and no child if it is a directory), whether the parent of
\* new_path is a live directory, the live objects inside and outside the
\* subtree of the old path
MRenameAs(o, path) ==
    \E m \in {MDoRename(MCtx, o, path)} :
        MCallAs(m, [MCalled("rename", o, m,
                            /\ MLive(MCtx, o)
                            /\ mfs[o].type = MFile
                            /\ mfs[o].path # path) EXCEPT
                       !.path = path,
                       !.old = IF MHasOid(MCtx, o) THEN mfs[o].path ELSE NoPath,
                       !.was = IF MHasOid(MCtx, o) THEN MHash(MCtx, o) ELSE NoHash,
                       !.live = MLive(MCtx, o),
                       !.dir = MLive(MCtx, o) /\ mfs[o].type = MDir,
                       !.target = IF MClash(MCtx, path) THEN MGetByPath(MCtx, path) ELSE 0,
                       !.fits = /\ MLive(MCtx, o)
                                /\ MClash(MCtx, path)
                                /\ mfs[MGetByPath(MCtx, path)].type = mfs[o].type
                                /\ ~(mfs[o].type = MDir
                                     /\ MHasChild(MCtx, MGetByPath(MCtx, path))),
                       !.parent = ~Failed(MVerifyParent(MCtx, path)),
                       !.sub = IF MLive(MCtx, o) THEN MTreeOf(MCtx, mfs[o].path, TRUE) ELSE {},
                       !.rest = IF MLive(MCtx, o) THEN MTreeOf(MCtx, mfs[o].path, FALSE)
                                ELSE {}])

MRenameInfo(paths) ==
    \E o \in MOids \ {1}, path \in paths :
        /\ MRoom
        /\ MRenameAs(o, path)

\* list(walk()) on MockProvider
MWalkCall ==
    \E m \in {MCtx} :
        MCallAs(m, [MCalled("walk", 0, m, TRUE) EXCEPT !.out = MWalk(m)])

FsCreatePaths == {PathOf(<<"a">>), PathOf(<<"d">>)}
FsRenamePaths == {PathOf(<<"b">>), PathOf(<<"d", "a">>)}
FsContents == {"hello", "bye"}

FsNext ==
    \/ MCreateInfo(FsCreatePaths, FsContents)
    \/ MRenameInfo(FsRenamePaths)
    \/ MMkdir
    \/ MDelete
    \/ MWalkCall

\* the calls of the rename histories: a call that makes an object needs room
\* for it, every call needs room in the log
RenCreatePaths == {PathOf(<<"a">>), PathOf(<<"b">>), PathOf(<<"d", "a">>)}
RenMkdirPaths == {PathOf(<<"d">>), PathOf(<<"e">>)}
RenPaths == {PathOf(<<"a">>), PathOf(<<"b">>), PathOf(<<"d">>), PathOf(<<"e">>)}
RenRoom == Len(mevents) < MaxLog

RenCreate ==
    \E path \in RenCreatePaths, content \in MContents :
        /\ RenRoom
        /\ Len(mfs) < MaxObjects
        /\ MCreateAs(path, content)

RenMkdir ==
    \E path \in RenMkdirPaths :
        /\ RenRoom
        /\ Len(mfs) < MaxObjects
        /\ MCall("mkdir", 0, MDoMkdir(MCtx, path), ~MClash(MCtx, path))

\* pre: the oid is live
RenDelete ==
    \E o \in MOids \ {1} :
        /\ RenRoom
        /\ MCall("delete", o, MDoDelete(MCtx, o), MLive(MCtx, o))

RenRename ==
    \E o \in MOids \ {1}, path \in RenPaths :
        /\ RenRoom
        /\ MRenameAs(o, path)

RenNext ==
    \/ RenCreate
    \/ RenMkdir
    \/ RenDelete
    \/ RenRename

\* list(events()).  pre: nothing was logged since the last call; out is
\* what this call yields, got is all that was yielded since construction
MEventsCall ==
    \E m \in {MEventsList(MCtx)} :
        MCallAs(m, [MCalled("events", 0, m, mcursor = mlatest) EXCEPT
                       !.out = m.ret,
                       !.got = mlast.got \o m.ret])

MFeedNext ==
    \/ MCreate
    \/ MMkdir
    \/ MUpload
    \/ MDelete
    \/ MRename
    \/ MEventsCall

\* both providers constructed; recycle_oid is a constructor argument
Init == GInit /\ MInit /\ mrecycle = FALSE /\ TInit /\ EInit
InitMock == GInit /\ MInit /\ mrecycle \in BOOLEAN /\ TInit /\ EInit

\* the provider's calls other than events()
OpsNext ==
    \/ Connect(FaultChoices)
    \/ DisconnectCall
    \/ Create({NoFault})
    \/ Mkdir({NoFault})
    \/ Upload(FaultChoices)
    \/ Rename(RenameOids, RenamePaths, {NoFault})
    \/ Delete(DeleteOids, {NoFault})
    \/ Listdir({NoFault})
    \/ InfoPathCall(LookupPaths, {NoFault})
    \/ ExistsPathCall({NoFault})
    \/ InfoOid({NoFault})
    \/ PathOidCall(FileOids, {NoFault})
    \/ Download

\* events() and the calls that feed the change log
FeedNext ==
    \/ Connect({NoFault})
    \/ InfoPathCall({PathOf(<<"s", "d", "a">>)}, {NoFault})
    \/ Upload({NoFault})
    \/ Rename({"d"}, {PathOf(<<"o", "d">>)}, {NoFault})
    \/ Delete({"a"}, {NoFault})
    \/ EventsCall
    \/ EventsNext
    \/ EventsAbandon

\* GDriveProvider against the backend
SpecOps == Init /\ [][OpsNext]_vars
SpecEvents == Init /\ [][FeedNext]_vars
\* MockProvider
SpecMock == InitMock /\ [][MNext]_vars
\* MockProvider: what create, rename and walk return
SpecMockFs == InitMock /\ [][FsNext]_vars
SpecMockRename == InitMock /\ [][RenNext]_vars
SpecMockFeed == InitMock /\ [][MFeedNext]_vars

-----------------------------------------------------------------------------
(* Parent-chain ascent over the parent relations a backend may report *)

AscentParents == {"s", "o", "d", "a", RootOid}
AscentFiles ==
    {[InitFiles EXCEPT !["d"].parent = pd, !["a"].parent = pa] :
        pd \in AscentParents, pa \in AscentParents}

InitAscent == (\E fs \in AscentFiles : GStart(fs)) /\ MInit /\ mrecycle = FALSE /\ TInit /\ EInit

AscentNext ==
    \/ Connect({NoFault})
    \/ InfoPathCall({PathOf(<<"s", "d">>)}, {NoFault})
    \/ PathOidCall({"a", "d"}, {NoFault})
    \/ IsSuboidCall({"s"}, {"s", "d", "a"})

SpecAscent == InitAscent /\ [][AscentNext]_vars

-----------------------------------------------------------------------------
(* One GDriveProvider shared by several threads.  A call is cut where the  *)
(* interpreter can switch threads: before _api takes the mutex, while a    *)
(* request is on the wire, and between two statements that touch _ids.     *)

\* the provider the threads share: connected, /s/d/a and /o looked up
Ctx0 ==
    [files |-> InitFiles, changes |-> <<>>, client |-> FALSE,
     ids |-> <<[p |-> RootPath, o |-> RootAlias]>>, cursor |-> 0, rootId |-> None,
     syncRootId |-> None, fault |-> NoFault, calls |-> 0, muts |-> 0, err |-> "",
     ret |-> None, resp |-> <<>>]
Warm ==
    InfoPath(InfoPath(DoConnect(Ctx0, "ok"), PathOf(<<"s", "d", "a">>)), PathOf(<<"o">>))

InitThreads ==
    /\ files = Warm.files
    /\ changes = Warm.changes
    /\ client = Warm.client
    /\ ids = Warm.ids
    /\ cursor = Warm.cursor
    /\ rootId = Warm.rootId
    /\ syncRootId = Warm.syncRootId
    /\ gen = NoGen
    /\ hist = NoHist
    /\ last = NoLast
    /\ MInit
    /\ mrecycle = FALSE
    /\ TInit
    /\ EInit

\* the thread's position in a call
At(t, th) == thr' = [thr EXCEPT ![t] = th]
\* the call of thread t is over, with exception e if any
Over(t, e) == At(t, [NoThread EXCEPT !.err = e])
\* how many keys of _ids hold oid
Mapped(d, oid) == Cardinality({i \in 1..Len(d) : d[i].o = oid})
\* threads whose request is on the wire
InFlight == {t \in Threads : thr[t].pc \in {"wire", "chunk"}}

\* rename(oid, path) up to its first request: get_parent_id(path), here
\* answered by the cache
TRename(t, oids, paths) ==
    \E oid \in oids, path \in paths :
        /\ thr[t].pc = "idle"
        /\ Room
        /\ IdsHas(ids, SplitParent(path))
        /\ IdsGet(ids, SplitParent(path)) # RootAlias
        /\ At(t, [NoThread EXCEPT !.pc = "api", !.rq = "get", !.op = "rename",
                                  !.oid = oid, !.path = path,
                                  !.pid = IdsGet(ids, SplitParent(path))])
        /\ UNCHANGED <<gvars, ovars, mutex, seen>>

\* the request thread th is about to make or has on the wire
TReq(th) ==
    CASE th.rq = "get" -> [m |-> "files.get", fileId |-> th.oid]
      [] th.rq = "update" -> [m |-> "files.update", fileId |-> th.oid, move |-> TRUE,
                              name |-> SplitName(th.path), pid |-> th.pid]
      [] OTHER -> [m |-> "files.get", fileId |-> th.cur]

\* _api: `with self.mutex:` is entered
ApiEnter(t) ==
    /\ thr[t].pc = "api"
    /\ client => mutex = 0
    /\ mutex' = IF client THEN t ELSE mutex
    /\ IF client THEN At(t, [thr[t] EXCEPT !.pc = "wire"])
       ELSE Over(t, "CloudDisconnectedError")
    /\ UNCHANGED <<gvars, ovars, seen>>

\* where the call goes on once its request is answered in context c
ApiDone(th, c) ==
    CASE th.rq = "get" ->
            IF c.err = "CloudFileNotFoundError" THEN [NoThread EXCEPT !.err = "AttributeError"]
            ELSE IF Failed(c) THEN [NoThread EXCEPT !.err = c.err]
            ELSE [th EXCEPT !.pc = "api", !.rq = "update"]
      [] th.rq = "update" ->
            IF Failed(c) THEN [NoThread EXCEPT !.err = c.err]
            ELSE [th EXCEPT !.pc = "list"]
      [] OTHER ->
            IF c.err = "CloudFileNotFoundError" THEN NoThread
            ELSE IF Failed(c) THEN [NoThread EXCEPT !.err = c.err]
            ELSE IF c.resp.parents = <<>> \/ c.resp.name = "" THEN NoThread
            ELSE [th EXCEPT !.pc = "scan", !.cur = c.resp.parents[1],
                            !.chain = Append(@, [oid |-> th.cur, name |-> c.resp.name])]

\* _api: meth.execute() returns and the mutex is released
ApiLeave(t) ==
    /\ thr[t].pc = "wire"
    /\ \E c \in {Api(Ctx(NoFault), TReq(thr[t]))} :
          /\ Commit(c)
          /\ At(t, ApiDone(thr[t], c))
    /\ mutex' = 0
    /\ UNCHANGED <<gen, hist, last, ovars, seen>>

\* rename: list(self._ids.items())
RenameList(t) ==
    /\ thr[t].pc = "list"
    /\ At(t, [thr[t] EXCEPT !.pc = "move", !.snap = ids, !.had = Mapped(ids, thr[t].oid)])
    /\ UNCHANGED <<gvars, ovars, mutex, seen>>

\* rename: one turn of the loop up to self._ids.pop(cpath)
RenameMove(t) ==
    /\ thr[t].pc = "move"
    /\ IF thr[t].snap = <<>> THEN Over(t, "") /\ UNCHANGED ids
       ELSE IF Head(thr[t].snap).o # thr[t].oid
            THEN At(t, [thr[t] EXCEPT !.snap = Tail(@)]) /\ UNCHANGED ids
       ELSE IF ~IdsHas(ids, Head(thr[t].snap).p) THEN Over(t, "KeyError") /\ UNCHANGED ids
       ELSE /\ ids' = IdsPop(ids, Head(thr[t].snap).p)
            /\ At(t, [thr[t] EXCEPT !.pc = "popped"])
    /\ UNCHANGED <<files, changes, client, cursor, rootId, syncRootId, gen, hist, last,
                   ovars, mutex, seen>>

\* rename: self._ids[path] = oid
RenameSet(t) ==
    /\ thr[t].pc = "popped"
    /\ ids' = IdsSet(ids, thr[t].path, thr[t].oid)
    /\ At(t, [thr[t] EXCEPT !.pc = "move", !.snap = Tail(@)])
    /\ UNCHANGED <<files, changes, client, cursor, rootId, syncRootId, gen, hist, last,
                   ovars, mutex, seen>>

\* _path_oid(oid) is called
TPathOid(t, oids) ==
    \E oid \in oids :
        /\ thr[t].pc = "idle"
        /\ At(t, [NoThread EXCEPT !.pc = "scan", !.op = "path_oid", !.oid = oid,
                                  !.cur = oid])
        /\ UNCHANGED <<gvars, ovars, mutex, seen>>

\* _path_oid: the loop over self._ids.items(); a miss goes on to _info_oid
PathOidScan(t) ==
    /\ thr[t].pc = "scan"
    /\ seen' = [by |-> t, oid |-> thr[t].cur, n |-> Mapped(ids, thr[t].cur),
                moving |-> \E u \in Threads \ {t} :
                              /\ thr[u].pc \in {"move", "popped"}
                              /\ thr[u].oid = thr[t].cur
                              /\ thr[u].had = 1]
    /\ IF IdsPathOf(ids, thr[t].cur) = NoPath
       THEN At(t, [thr[t] EXCEPT !.pc = "api", !.rq = "pget"])
       ELSE IF thr[t].chain = <<>> THEN Over(t, "")
       ELSE At(t, [thr[t] EXCEPT !.pc = "unwind", !.rp = IdsPathOf(ids, thr[t].cur)])
    /\ UNCHANGED <<gvars, ovars, mutex>>

\* _path_oid: the recursive call returned ppath; self._ids[path] = oid
PathOidMemo(t) ==
    /\ thr[t].pc = "unwind"
    /\ \E f \in {thr[t].chain[Len(thr[t].chain)]} :
          /\ ids' = IdsSet(ids, Concat(thr[t].rp, f.name), f.oid)
          /\ IF Len(thr[t].chain) = 1 THEN Over(t, "")
             ELSE At(t, [thr[t] EXCEPT !.rp = Concat(@, f.name),
                                       !.chain = SubSeq(@, 1, Len(@) - 1)])
    /\ UNCHANGED <<files, changes, client, cursor, rootId, syncRootId, gen, hist, last,
                   ovars, mutex, seen>>

\* download(oid, file_like) up to dl.next_chunk(): the request is made with
\* self.client directly
TDownload(t, oids) ==
    \E oid \in oids :
        /\ thr[t].pc = "idle"
        /\ IF client THEN At(t, [NoThread EXCEPT !.pc = "chunk", !.op = "download",
                                                 !.oid = oid])
           ELSE Over(t, "AttributeError")
        /\ UNCHANGED <<gvars, ovars, mutex, seen>>

\* download: dl.next_chunk() returns
DownloadChunk(t, chunks) ==
    \E chunk \in chunks :
        /\ thr[t].pc = "chunk"
        /\ \E c \in {Chunk(Ctx(NoFault), thr[t].oid, chunk)} :
              /\ Commit(c)
              /\ Over(t, c.err)
        /\ UNCHANGED <<gen, hist, last, ovars, mutex, seen>>

ThreadsNext ==
    \E t \in Threads :
        \/ TRename(t, {"a"}, {PathOf(<<"o", "a">>), PathOf(<<"s", "b">>)})
        \/ TPathOid(t, {"a"})
        \/ TDownload(t, {"a"})
        \/ ApiEnter(t)
        \/ ApiLeave(t)
        \/ RenameList(t)
        \/ RenameMove(t)
        \/ RenameSet(t)
        \/ PathOidScan(t)
        \/ PathOidMemo(t)
        \/ DownloadChunk(t, {"none"})

SpecThreads == InitThreads /\ [][ThreadsNext]_vars

-----------------------------------------------------------------------------
(* The event manager of tests/test_events.py.  The provider is the         *)
(* MockProvider class of that module.  EventManager is not among the       *)
(* sources; it follows the specification: injected local events are queued,*)
(* run(timeout, until) drains the queue batch by batch, brings the remote  *)
(* side in line with each event and tests the predicate after each batch.  *)

EContents == {"x", "y"}
Untils == {"drained", "never"}

\* MockProvider.upload(local_file, remote_file) of the test module
TpUpload(e, lp, path) ==
    IF ~e.lfs[lp].exists THEN Raise(e, "FileNotFoundError")
    ELSE IF ~e.pfs[path].stored
    THEN [e EXCEPT !.pfs[path] = [stored |-> TRUE, contents |-> e.lfs[lp].contents,
                                  exists |-> TRUE, id |-> e.made + 1],
                   !.made = @ + 1]
    ELSE [e EXCEPT !.pfs[path].contents = e.lfs[lp].contents]

\* MockProvider.delete(remote_file) of the test module
TpDelete(e, path) ==
    IF ~(e.pfs[path].stored /\ e.pfs[path].exists) THEN Raise(e, "CloudFileNotFoundError")
    ELSE [e EXCEPT !.pfs[path].exists = FALSE]

\* MockProvider.exists(remote_file) of the test module
TpExists(e, path) == e.pfs[path].stored /\ e.pfs[path].exists

\* MockProvider.remote_hash / remote_id of the test module, NoHash and 0
\* where they raise CloudFileNotFoundError
TpRemoteHash(e, path) == IF TpExists(e, path) THEN Md5(e.pfs[path].contents) ELSE NoHash
TpRemoteId(e, path) == IF TpExists(e, path) THEN e.pfs[path].id ELSE 0

\* the transition of the entry of an event's path: the remote side is made
\* to hold what the local side holds; a failed operation leaves the entry
\* unresolved
EmApply(e, ev) ==
    Bind(RemotePath(ev.path), LAMBDA path :
    Bind([e EXCEPT !.lfs[ev.path].noted = TRUE], LAMBDA e1 :
        IF ev.exists
        THEN IF TpExists(e1, path) /\ e1.lfs[ev.path].exists
                /\ TpRemoteHash(e1, path) = Md5(e1.lfs[ev.path].contents)
             THEN [e1 EXCEPT !.entries[path] = "IN_SYNC"]
             ELSE Bind(TpUpload(e1, ev.path, path), LAMBDA e2 :
                    IF Failed(e2) THEN [e2 EXCEPT !.err = "", !.entries[path] = "UNRESOLVED"]
                    ELSE [e2 EXCEPT !.entries[path] = "IN_SYNC"])
        ELSE IF TpExists(e1, path)
             THEN [TpDelete(e1, path) EXCEPT !.entries[path] = "TOMBSTONED"]
             ELSE [e1 EXCEPT !.entries[path] = "TOMBSTONED"]))

\* one batch: every queued event, in order
RECURSIVE EmDrain(_)
EmDrain(e) ==
    IF e.queue = <<>> THEN e
    ELSE EmDrain(EmApply([e EXCEPT !.queue = Tail(@)], Head(e.queue)))

\* the predicates run() is called with
Until(e, u) == u = "drained" /\ e.queue = <<>>

\* one turn of run(timeout, until): a batch, then the predicate, then the
\* time budget
EmTurn(e) ==
    Bind(EmDrain(e), LAMBDA e1 :
        IF Until(e1, e1.run.until) THEN [e1 EXCEPT !.run.pc = "returned", !.run.why = "until"]
        ELSE IF e1.run.left <= 1
        THEN [e1 EXCEPT !.run.pc = "returned", !.run.why = "timeout", !.run.left = 0]
        ELSE [e1 EXCEPT !.run.left = @ - 1])

Engine(e) == eng' = e /\ UNCHANGED <<gvars, mvars, tvars>>

\* whether an event of the local path waits in the queue
Pending(e, lp) == \E i \in 1..Len(e.queue) : e.queue[i].path = lp

\* the test writes or removes a local file whose last event was handled
LocalWrite ==
    \E lp \in ELocals, contents \in EContents :
        /\ ~Pending(eng, lp)
        /\ ~(eng.lfs[lp].exists /\ eng.lfs[lp].contents = contents)
        /\ Engine([eng EXCEPT !.lfs[lp] = [exists |-> TRUE, contents |-> contents,
                                           noted |-> FALSE]])

LocalRemove ==
    \E lp \in ELocals :
        /\ ~Pending(eng, lp)
        /\ eng.lfs[lp].exists
        /\ Engine([eng EXCEPT !.lfs[lp] = [exists |-> FALSE, contents |-> "",
                                           noted |-> FALSE]])

\* manager.local_event(path, exists), as the watcher of the local side
\* would report the file
LocalEvent ==
    \E lp \in ELocals :
        /\ Len(eng.queue) < MaxQueue
        /\ ~Pending(eng, lp)
        /\ Engine([eng EXCEPT !.queue = Append(@, [path |-> lp,
                                                   exists |-> eng.lfs[lp].exists])])

\* manager.run(timeout, until) is called
RunCall ==
    \E timeout \in 1..MaxTimeout, u \in Untils :
        /\ eng.run.pc # "running"
        /\ Engine([eng EXCEPT !.run = [pc |-> "running", left |-> timeout, until |-> u,
                                       why |-> ""]])

RunTurn ==
    /\ eng.run.pc = "running"
    /\ Engine(EmTurn(eng))

EngineNext ==
    \/ LocalWrite
    \/ LocalRemove
    \/ LocalEvent
    \/ RunCall
    \/ RunTurn

SpecEngine == Init /\ [][EngineNext]_vars

-----------------------------------------------------------------------------
(* The properties *)

MockDeleteAbsentNoop ==
    /\ (mlast.op = "delete" /\ mlast.pre) => (mlast.err = "" /\ mlast.same)
    /\ \A i, j \in 1..Len(mevents) :
          (/\ i < j
           /\ mevents[i].action = "provider delete"
           /\ mevents[j].action = "provider delete"
           /\ mevents[i].oid = mevents[j].oid)
          => \E k \in (i + 1)..(j - 1) :
                /\ mevents[k].action = "provider create"
                /\ mevents[k].oid = mevents[i].oid

\* delete was called on an oid whose delete is already in the log
MockDeleteAbsentWitness ==
    /\ mlast.op = "delete"
    /\ mlast.pre
    /\ \E i \in 1..Len(mevents) :
          mevents[i].action = "provider delete" /\ mevents[i].oid = mlast.oid

\* C3: GDriveProvider.delete of an oid the backend no longer has (a 404)
\* returns normally.
DeleteAbsentReturns == (last.op = "delete" /\ last.pre) => last.err = ""

\* C4: on both providers, rename to a path whose parent directory does not
\* exist fails with CloudFileNotFoundError and leaves the mapping as it was:
\* for GDriveProvider _ids is unchanged and no mutating request is issued,
\* for MockProvider the indexes, the objects and the event log are unchanged.
RenameNoParentFails ==
    /\ (last.op = "rename" /\ last.pre)
          => (last.err = "CloudFileNotFoundError" /\ last.same /\ last.muts = 0)
    /\ (mlast.op = "rename" /\ mlast.pre)
          => (mlast.err = "CloudFileNotFoundError" /\ mlast.same)

\* C5: _ids never maps two different paths to the same oid.
IdsOnePathPerOid ==
    \A i, j \in 1..Len(ids) : ids[i].o = ids[j].o => i = j

\* C6: is_suboid and _path_oid end in a bounded number of steps on every
\* parent relation, cycles included, with a result and not by running into
\* the recursion limit.
AscentBounded ==
    last.op \in {"_path_oid", "is_suboid"} => last.err # "RecursionError"

\* C7: every event events() yields for an existing object concerns an
\* object that is inside the sync root on the backend when it is yielded.
YieldedInsideSyncRoot ==
    (last.op = "events" /\ last.yielded /\ last.exists) => last.inside

\* C8 as stated: events() returns with time budget left only after the
\* backend returned an empty batch following an emitted event.
EarlyReturnAfterEmptyBatch ==
    (last.op = "events" /\ last.fin /\ last.err = "" /\ last.left > 0) => last.quiet

\* C8: events() returns with time budget left only when an event was
\* emitted in this call; while none was emitted it polls until the budget
\* is exhausted.
EarlyReturnAfterEvent ==
    (last.op = "events" /\ last.fin /\ last.err = "")
        => /\ last.left > 0 => last.got
           /\ ~last.got => last.left = 0

\* events() returned early after an event, no empty batch in between
EarlyReturnWitness ==
    /\ last.op = "events"
    /\ last.fin
    /\ last.err = ""
    /\ last.left > 0
    /\ last.got
    /\ ~last.quiet

\* C9: a transport timeout during an events() poll of a connected provider
\* does not end the poll with an exception.
PollSurvivesDisconnect ==
    (last.op = "events" /\ last.pre) => last.err # "CloudDisconnectedError"

\* C10: every failure of an operation reaches the caller as one of the
\* five Cloud errors.
CloudOps == {"upload", "create", "download", "rename", "mkdir", "delete",
             "listdir", "info_path", "info_oid", "events"}
OnlyCloudErrors == last.op \in CloudOps => last.err \in CloudErrors \cup {""}

\* C11: connect ends in one of three ways: it returns with the provider
\* connected, or it raises CloudTokenError or CloudDisconnectedError and
\* leaves the provider not connected.
ConnectOutcomes ==
    last.op = "connect"
        => \/ last.err = "" /\ client
           \/ last.err \in {"CloudTokenError", "CloudDisconnectedError"} /\ ~client

\* C12: at most one request of a provider is on the wire at any time, a
\* download's included.
OneRequestInFlight == Cardinality(InFlight) <= 1

\* C13: a scan of the cache made while another thread's rename moves the
\* entry of an oid that one path mapped finds the oid mapped by exactly one
\* path.
MoveLooksAtomic == seen.moving => seen.n = 1

\* C14: info_oid(oid) of a connected GDriveProvider never raises; it
\* returns an info record when the backend has oid and None when it has not.
InfoOidReturnsInfo ==
    (last.op = "info_oid" /\ last.pre)
        => last.err = "" /\ (last.none <=> ~last.exists)

\* C15: a successful mkdir(path) of GDriveProvider returns the oid of a
\* directory the backend holds at path.
MkdirReturnsOid ==
    (last.op = "mkdir" /\ last.err = "")
        => last.oid \in DirsAt(files, last.path)

\* C19: after delete(oid) of an object the cache holds at path p, with
\* nothing else put at p on the backend, exists_path(p) of GDriveProvider
\* returns false.
ExistsPathAfterDelete ==
    (/\ last.op = "exists_path"
     /\ last.err = ""
     /\ \E o \in Oids : /\ IdsGet(ids, last.path) = o
                        /\ files[o].st = "gone"
                        /\ Alive(files, files[o].parent)
     /\ \A o \in Oids : Alive(files, o) => TruePath(files, o) # last.path)
        => ~last.yes

\* C16: walk() of MockProvider yields exactly one event for each object
\* that exists strictly below the sync root, each with exists true and the
\* object's oid, path and hash, and none for a deleted object.
WalkYieldsExisting ==
    mlast.op = "walk" =>
          /\ \A i \in 1..Len(mlast.out) : mlast.out[i].exists
          /\ \A o \in 2..Len(mfs) :
                MLive(MCtx, o) =>
                    Cardinality({i \in 1..Len(mlast.out) :
                                    mlast.out[i] = [type |-> mfs[o].type, oid |-> o,
                                                    path |-> mfs[o].path,
                                                    hash |-> MHash(MCtx, o),
                                                    exists |-> TRUE]}) = 1

\* C17: a successful create(path, content) of MockProvider on a path that
\* holds no live object returns an oid and the md5 of content as hash, and
\* download of that oid then writes content.
CreateRoundTrip ==
    (mlast.op = "create" /\ mlast.err = "" /\ mlast.pre)
        => /\ mlast.oid # 0
           /\ mlast.hash = Md5(mlast.content)
           /\ ~Failed(MDoDownload(MCtx, mlast.oid))
           /\ MDoDownload(MCtx, mlast.oid).ret = mlast.content

\* C18: after a successful rename(oid, new_path) of a live file of
\* MockProvider to another path, info_oid(oid) has the same oid, the new
\* path and the hash the file had, info_path(new_path) has this oid and
\* info_path(old_path) is None; no oid is stored twice.
RenameKeepsOid ==
    /\ (mlast.op = "rename" /\ mlast.err = "" /\ mlast.pre)
          => /\ MInfoOid(MCtx, mlast.oid).found
             /\ MInfoOid(MCtx, mlast.oid).oid = mlast.oid
             /\ MInfoOid(MCtx, mlast.oid).path = mlast.path
             /\ MInfoOid(MCtx, mlast.oid).hash = mlast.was
             /\ MInfoPath(MCtx, mlast.path).oid = mlast.oid
             /\ ~MInfoPath(MCtx, mlast.old).found
    /\ \A i, j \in 1..Len(moid) : moid[i] = moid[j] => i = j
RenameKeepsOidWitness ==
    /\ mlast.op = "rename" /\ mlast.err = "" /\ mlast.pre
    /\ MInfoOid(MCtx, mlast.oid).path = mlast.path
    /\ mlast.old # NoPath

\* C20: run(timeout, until) returns because the predicate held or because
\* the time budget ran out, and a path whose local file was reported by
\* local_event(path, exists=True) and brought in sync is held by the
\* provider with the hash of the local contents and an id.
RunConverges ==
    /\ eng.run.pc = "returned" =>
          \/ eng.run.why = "until"
          \/ eng.run.why = "timeout" /\ eng.run.left = 0
    /\ \A path \in EPaths :
          (/\ eng.entries[path] = "IN_SYNC"
           /\ eng.lfs[LocalPath(path)].exists
           /\ eng.lfs[LocalPath(path)].noted)
              => /\ TpExists(eng, path)
                 /\ TpRemoteHash(eng, path) = Md5(eng.lfs[LocalPath(path)].contents)
                 /\ TpRemoteId(eng, path) # 0

\* C21: with every events() call drained, all that was logged after the
\* construction up to the cursor has been yielded once and in the order of
\* the log, each event with the exists the object had when it was logged; a
\* call with nothing new yields nothing; _cursor <= _latest_event ==
\* len(_events) - 1
EventsOnceInOrder ==
    /\ mcursor <= mlatest
    /\ mlatest = Len(mevents) - 1
    /\ mlast.got = [i \in 1..mcursor |->
                       [otype |-> IF mevents[i + 1].type = MFile THEN "file" ELSE "directory",
                        oid |-> mevents[i + 1].oid,
                        exists |-> ~mevents[i + 1].trashed]]
    /\ (mlast.op = "events" /\ mlast.pre => mlast.out = <<>>)
    /\ (mlast.op = "" => mlast.got = <<>>)

\* events() yielded the create of an object that was deleted before the
\* call, with exists true, and its delete after it
EventsOnceInOrderWitness ==
    /\ mlast.op = "events"
    /\ Len(mlast.out) >= 2
    /\ \E i \in 1..Len(mlast.out), j \in 1..Len(mlast.out) :
          /\ i < j
          /\ mlast.out[i].oid = mlast.out[j].oid
          /\ mlast.out[i].exists
          /\ ~mlast.out[j].exists
          /\ ~mfs[mlast.out[i].oid].exists

\* C22: rename of a live directory to a free path outside of its subtree,
\* with the parent of the new path in place, does not raise; every object
\* that was live at or below the old path is afterwards found by info_path
\* and info_oid at the path with the prefix replaced and not at its old
\* path, and the live objects outside keep their paths
RenameDirMovesSubtree ==
    (/\ mlast.op = "rename"
     /\ mlast.dir
     /\ mlast.parent
     /\ mlast.target = 0
     /\ ~IsSubpath(mlast.old, mlast.path, FALSE))
    => /\ mlast.err = ""
       /\ \A x \in mlast.sub :
             /\ MInfoOid(MCtx, x[1]).path = ReplacePath(x[2], mlast.old, mlast.path)
             /\ MInfoPath(MCtx, ReplacePath(x[2], mlast.old, mlast.path)).oid = x[1]
             /\ MInfoPath(MCtx, x[2]).oid # x[1]
       /\ \A x \in mlast.rest : MInfoOid(MCtx, x[1]).path = x[2]

\* C23: rename of a live object onto a path where another live object is:
\* if the target is of the same type and not a directory with a child, the
\* target is deleted, its delete event is logged before every rename event
\* of the call, and the renamed object is then the only live object at the
\* new path; otherwise the call raises CloudFileExistsError and nothing is
\* changed
RenameOverDeletesTarget ==
    (/\ mlast.op = "rename"
     /\ mlast.live
     /\ mlast.target # 0
     /\ mlast.target # mlast.oid)
    => IF mlast.fits
       THEN /\ ~mfs[mlast.target].exists
            /\ \E i \in 1..Len(mlast.new) :
                  /\ mlast.new[i].action = "provider delete"
                  /\ mlast.new[i].oid = mlast.target
                  /\ \A j \in 1..i : mlast.new[j].action # "provider rename"
            /\ MInfoPath(MCtx, mlast.path).oid = mlast.oid
            /\ \A o \in 1..Len(mfs) :
                  mfs[o].exists /\ mfs[o].path = mlast.path => o = mlast.oid
       ELSE /\ mlast.err = "CloudFileExistsError"
            /\ mlast.same

\* C24: a call that raises leaves the path index, the oid index, the
\* objects, the event log and the cursor as they were
MockFailureAtomic == mlast.err # "" => mlast.same

\* C26: after a rename that returns, of an object that was live, the object
\* is live and its contents are as before
RenameKeepsExistence ==
    (mlast.op = "rename" /\ mlast.err = "" /\ mlast.live)
    => /\ MLive(MCtx, mlast.oid)
       /\ MHash(MCtx, mlast.oid) = mlast.was

\* C27: every live object is the value of its oid in _fs_by_oid and of its
\* path in _fs_by_path
IndexesAgree ==
    \A o \in 1..Len(mfs) :
        mfs[o].exists => MHasOid(MCtx, o) /\ MGetByPath(MCtx, mfs[o].path) = o

\* C28: create of a new file, mkdir of a new directory and delete of a live
\* object log one event each, rename of a live file onto a free path logs
\* one rename event of the oid, and a delete of nothing logs none
OneEventPerChange ==
    /\ (mlast.op \in {"create", "mkdir", "delete"} /\ mlast.err = "" /\ mlast.pre)
       => Len(mlast.new) = 1
    /\ (mlast.op = "delete" /\ ~mlast.pre) => mlast.new = <<>>
    /\ (/\ mlast.op = "rename"
        /\ mlast.err = ""
        /\ mlast.live
        /\ ~mlast.dir
        /\ mlast.target = 0
        /\ mlast.old # mlast.path)
       => mlast.new = <<[action |-> "provider rename", oid |-> mlast.oid, type |-> MFile,
                         trashed |-> FALSE]>>

\* C25: when _path_oid(oid) returns for an oid that was not cached and that
\* is alive with all its ancestors, what it returns is the true path of the
\* object, the cache maps that path to the oid and has the path of every
\* ancestor, and info_path of the returned path gives the oid
PathOidTruePath ==
    (last.op = "_path_oid" /\ last.err = "" /\ last.exists /\ ~last.yes)
    => /\ last.path = TruePath(files, last.oid)
       /\ IdsGet(ids, last.path) = last.oid
       /\ \A k \in 1..(Len(last.path) \div 2) : IdsHas(ids, SubSeq(last.path, 1, 2 * k))
       /\ InfoPath(Ctx(NoFault), last.path).ret.found
       /\ InfoPath(Ctx(NoFault), last.path).ret.oid = last.oid

\* C29: a call that fails on a token refresh leaves the provider
\* disconnected, and download on a disconnected provider raises
\* CloudDisconnectedError
DisconnectedUntilConnect ==
    /\ last.err \in {"CloudTokenError", "HttpAccessTokenRefreshError"} => ~client
    /\ (last.op = "download" /\ ~last.pre) => last.err = "CloudDisconnectedError"

=============================================================================
